---- MODULE Spec2Model ----
(***************************************************************************)
(* A model of the CHIP-8 interpreter of src/src/interpreter/mod.rs: the    *)
(* machine state VMState, its constructor new, load, and the per-tick      *)
(* entry point step (timer policy, fetch, program-counter advance,         *)
(* execute).  One TLA+ step is one call of VMState::step by the host.      *)
(*                                                                         *)
(* Representation.  Bytes are 0..255, addresses and the u16 fields are     *)
(* 0..65535, Durations are whole nanoseconds.  The display, a 32 x 64      *)
(* array of two-state pixels, is the set of the <<row, column>> pairs      *)
(* whose pixel is on.  Option<Display> is a record [some, val].  A Rust    *)
(* panic ends the process: it is the absorbing value status = "panicked".  *)
(* Arithmetic that overflows panics when the build has overflow checks     *)
(* (the dev profile) and wraps when it has not (the release profile);      *)
(* overflow_checks is fixed at construction and both builds are explored.  *)
(***************************************************************************)
EXTENDS Integers, Sequences, FiniteSets, TLC

VARIABLES
    memory,           \* [u8; 4096]
    registers,        \* [u8; 16]
    program_counter,  \* u16
    stack_pointer,    \* u8
    stack,            \* [u16; 16]
    index,            \* u16
    display,          \* chip8_base::Display, as the set of lit <<row, col>>
    speed,            \* Duration (ns), fixed at construction
    decrement_timer,  \* Duration (ns)
    delay_timer,      \* u8
    sound_timer,      \* u8
    overflow_checks,  \* build profile: TRUE = overflow panics, FALSE = wraps
    status,           \* "running" | "panicked"
    ret,              \* what the last step returned: Option<Display>
    steps,            \* history: number of step() calls made
    ticks,            \* history: number of steps whose timer policy fired
    calls,            \* history: return addresses of the calls not yet returned from
    font_written,     \* history: an Fx33/Fx55 write has targeted the font bytes
    sound_due,        \* history: the value of ticks at which the sound timer runs out
    last,             \* history: the machine as the last step found it
    last2             \* history: the machine as the step before found it

vars == <<memory, registers, program_counter, stack_pointer, stack, index,
          display, speed, decrement_timer, delay_timer, sound_timer,
          overflow_checks, status, ret, steps, ticks, calls, font_written,
          sound_due, last, last2>>

----------------------------------------------------------------------------
(* Program constants *)

FONT ==
    << 240, 144, 144, 144, 240,    \* 0
        32,  96,  32,  32, 112,    \* 1
       240,  16, 240, 128, 240,    \* 2
       240,  16, 240,  16, 240,    \* 3
       144, 144, 240,  16,  16,    \* 4
       240, 128, 240,  16, 240,    \* 5
       240, 128, 240, 144, 240,    \* 6
       240,  16,  32,  64,  64,    \* 7
       240, 144, 240, 144, 240,    \* 8
       240, 144, 240,  16, 240,    \* 9
       240, 144, 240, 144, 144,    \* A
       224, 144, 224, 144, 224,    \* B
       240, 128, 128, 128, 240,    \* C
       224, 144, 144, 144, 224,    \* D
       240, 128, 240, 128, 240,    \* E
       240, 128, 240, 128, 128 >>  \* F

FONT_INDEX == 80

FONT_LOADED == 50

TIME_60HZ == 16666667

MEM_SIZE == 4096

ROM_BASE == 512

STACK_SIZE == 16

NUM_REGS == 16

NUM_KEYS == 16

DISPLAY_W == 64

DISPLAY_H == 32

NANOS_PER_SEC == 1000000000

----------------------------------------------------------------------------
(* Bounds of the exploration *)

MaxSteps == 18

----------------------------------------------------------------------------
(* Fixed-width arithmetic *)

RECURSIVE BitAnd(_, _)
BitAnd(a, b) ==
    IF a = 0 \/ b = 0 THEN 0
    ELSE (a % 2) * (b % 2) + 2 * BitAnd(a \div 2, b \div 2)

RECURSIVE BitOr(_, _)
BitOr(a, b) ==
    IF a = 0 THEN b
    ELSE IF b = 0 THEN a
    ELSE (IF a % 2 = 1 \/ b % 2 = 1 THEN 1 ELSE 0) + 2 * BitOr(a \div 2, b \div 2)

RECURSIVE BitXor(_, _)
BitXor(a, b) ==
    IF a = 0 THEN b
    ELSE IF b = 0 THEN a
    ELSE ((a + b) % 2) + 2 * BitXor(a \div 2, b \div 2)

\* u8::wrapping_add / the result half of u8::overflowing_add
wrapping_add(a, b) == (a + b) % 256

\* the result half of u8::overflowing_sub
wrapping_sub(a, b) == (a - b + 256) % 256

----------------------------------------------------------------------------
(* Option<Display> *)

None == [some |-> FALSE, val |-> {}]

Some(d) == [some |-> TRUE, val |-> d]

\* [[Pixel::default(); 64]; 32]: every pixel off
BlankDisplay == {}

----------------------------------------------------------------------------
(* Construction and ROM load *)

\* Duration::from_secs_f64(1.0 / freq), to the nearest nanosecond
SpeedOf(freq) == (NANOS_PER_SEC + freq \div 2) \div freq

\* The memory image VMState::new builds: zero, then the font bytes copied by
\* the loop over FONT_INDEX..FONT_INDEX+50.
NewMemory ==
    [a \in 0..(MEM_SIZE - 1) |->
        IF a >= FONT_INDEX /\ a < FONT_INDEX + FONT_LOADED
        THEN FONT[a - FONT_INDEX + 1]
        ELSE 0]

\* VMState::load: rom[i] goes to memory[0x200 + i]
load(m, rom) ==
    [a \in 0..(MEM_SIZE - 1) |->
        IF a >= ROM_BASE /\ a - ROM_BASE < Len(rom)
        THEN rom[a - ROM_BASE + 1]
        ELSE m[a]]

----------------------------------------------------------------------------
(* Decoder *)

\* VMState::fetch indexes memory[ind] and memory[ind + 1]: an index past the
\* 4096-byte array panics.
FetchPanics(pc) == pc + 1 > MEM_SIZE - 1

\* VMState::fetch: the two bytes at program_counter

fetch(m, pc) == <<m[pc], m[pc + 1]>>

\* VMState::extract_nibbles
extract_nibbles(i) == <<(i[1] \div 16) % 16, i[1] % 16, (i[2] \div 16) % 16, i[2] % 16>>

\* VMState::extract_12_bits: (n0 << 8) | (n1 << 4) | n2
extract_12_bits(n0, n1, n2) == BitOr(BitOr(n0 * 256, n1 * 16), n2)

----------------------------------------------------------------------------
(* Executor.  s is the machine [memory, registers, program_counter,        *)
(* stack_pointer, stack, index, display, delay_timer, sound_timer]; every  *)
(* opcode yields [vm, ret, panic].                                         *)

Ok(s) == [vm |-> s, ret |-> None, panic |-> FALSE]

Updated(s) == [vm |-> s, ret |-> Some(s.display), panic |-> FALSE]

Panic(s) == [vm |-> s, ret |-> None, panic |-> TRUE]

\* self.program_counter += 2 of the skip opcodes (u16; the driver has just
\* reduced program_counter below 4096, so the addition cannot overflow)
Skip(s) == [s EXCEPT !.program_counter = @ + 2]

\* 00E0 that clears the display and signals no update
op_CLS_silent(s) == Ok([s EXCEPT !.display = BlankDisplay])

\* 00E0 CLS
op_CLS(s) == Updated([s EXCEPT !.display = BlankDisplay])

\* 00EE RET
op_RET(s, oc) ==
    IF s.stack_pointer > STACK_SIZE - 1 THEN Panic(s)
    ELSE IF s.stack_pointer = 0 /\ oc THEN Panic(s)
    ELSE Ok([s EXCEPT !.program_counter = s.stack[s.stack_pointer],
                      !.stack_pointer = (s.stack_pointer + 255) % 256])

\* 1nnn JP addr
op_JP(s, nnn) == Ok([s EXCEPT !.program_counter = nnn])

\* 2nnn CALL addr
op_CALL(s, nnn, oc) ==
    LET sp == (s.stack_pointer + 1) % 256 IN
    IF s.stack_pointer = 255 /\ oc THEN Panic(s)
    ELSE IF sp > STACK_SIZE - 1 THEN Panic(s)
    ELSE Ok([s EXCEPT !.stack_pointer = sp,
                      !.stack[sp] = s.program_counter,
                      !.program_counter = nnn])

\* 3xkk SE Vx, byte
op_SE_byte(s, x, kk) == IF s.registers[x] = kk THEN Ok(Skip(s)) ELSE Ok(s)

\* 4xkk SNE Vx, byte
op_SNE_byte(s, x, kk) == IF s.registers[x] # kk THEN Ok(Skip(s)) ELSE Ok(s)

\* 5xy0 SE Vx, Vy
op_SE_reg(s, x, y) == IF s.registers[x] = s.registers[y] THEN Ok(Skip(s)) ELSE Ok(s)

\* 6xkk LD Vx, byte
op_LD_byte(s, x, kk) == Ok([s EXCEPT !.registers[x] = kk])

\* 7xkk that also reports the carry in VF, as 8xy4 does
op_ADD_byte_carry(s, x, kk) ==
    LET r1 == [s.registers EXCEPT ![x] = wrapping_add(@, kk)] IN
    Ok([s EXCEPT !.registers =
            [r1 EXCEPT ![15] = IF s.registers[x] + kk > 255 THEN 1 ELSE 0]])

\* 7xkk ADD Vx, byte
op_ADD_byte(s, x, kk) == Ok([s EXCEPT !.registers[x] = wrapping_add(@, kk)])

\* 8xy0 LD Vx, Vy
op_LD_reg(s, x, y) == Ok([s EXCEPT !.registers[x] = s.registers[y]])

\* 8xy1 OR Vx, Vy
op_OR(s, x, y) == Ok([s EXCEPT !.registers[x] = BitOr(s.registers[x], s.registers[y])])

\* 8xy2 AND Vx, Vy
op_AND(s, x, y) == Ok([s EXCEPT !.registers[x] = BitAnd(s.registers[x], s.registers[y])])

\* 8xy3 XOR Vx, Vy
op_XOR(s, x, y) == Ok([s EXCEPT !.registers[x] = BitXor(s.registers[x], s.registers[y])])

\* 8xy4 ADD Vx, Vy: registers[x] = r, then registers[0xF] = carry
op_ADD_reg(s, x, y) ==
    LET vx == s.registers[x]
        vy == s.registers[y]
        r == wrapping_add(vx, vy)
        carry == vx + vy > 255
        r1 == [s.registers EXCEPT ![x] = r]
    IN  Ok([s EXCEPT !.registers = [r1 EXCEPT ![15] = IF carry THEN 1 ELSE 0]])

\* 8xy5 SUB Vx, Vy: registers[x] = r, then registers[0xF] = NOT borrow
op_SUB(s, x, y) ==
    LET vx == s.registers[x]
        vy == s.registers[y]
        r == wrapping_sub(vx, vy)
        borrow == vx < vy
        r1 == [s.registers EXCEPT ![x] = r]
    IN  Ok([s EXCEPT !.registers = [r1 EXCEPT ![15] = IF borrow THEN 0 ELSE 1]])

\* 8xy6 SHR Vx: registers[0xF] = vx & 1, then registers[x] = vx >> 1
op_SHR(s, x) ==
    LET vx == s.registers[x]
        r1 == [s.registers EXCEPT ![15] = BitAnd(vx, 1)]
    IN  Ok([s EXCEPT !.registers = [r1 EXCEPT ![x] = vx \div 2]])

\* 8xy7 that subtracts in the order of 8xy5, vx - vy
op_SUBN_swapped(s, x, y) ==
    LET vx == s.registers[x]
        vy == s.registers[y]
        r1 == [s.registers EXCEPT ![x] = wrapping_sub(vx, vy)]
    IN  Ok([s EXCEPT !.registers = [r1 EXCEPT ![15] = IF vx < vy THEN 0 ELSE 1]])

\* 8xy7 SUBN Vx, Vy: registers[x] = vy - vx, then registers[0xF] = NOT borrow
op_SUBN(s, x, y) ==
    LET vx == s.registers[x]
        vy == s.registers[y]
        r == wrapping_sub(vy, vx)
        borrow == vy < vx
        r1 == [s.registers EXCEPT ![x] = r]
    IN  Ok([s EXCEPT !.registers = [r1 EXCEPT ![15] = IF borrow THEN 0 ELSE 1]])

\* 8xyE SHL Vx: registers[0xF] = vx & 0x80, then registers[x] = vx << 1
op_SHL(s, x) ==
    LET vx == s.registers[x]
        r1 == [s.registers EXCEPT ![15] = BitAnd(vx, 128)]
    IN  Ok([s EXCEPT !.registers = [r1 EXCEPT ![x] = (vx * 2) % 256]])

\* 9xy0 SNE Vx, Vy
op_SNE_reg(s, x, y) == IF s.registers[x] # s.registers[y] THEN Ok(Skip(s)) ELSE Ok(s)

\* Annn LD I, addr
op_LD_I(s, nnn) == Ok([s EXCEPT !.index = nnn])

\* Bnnn JP V0, addr: nnn + V0 as u16, at most 0xFFF + 0xFF
op_JP_V0(s, nnn) == Ok([s EXCEPT !.program_counter = nnn + s.registers[0]])

\* Cxkk RND Vx, byte: rnd is the byte rand::random::<u8>() returned
op_RND(s, x, kk, rnd) == Ok([s EXCEPT !.registers[x] = BitAnd(rnd, kk)])

\* The sprite bit of column j of a row byte: (row & 2^(7-j)) >> (7-j)
SpriteBit(row, j) == BitAnd(row, 2 ^ (7 - j)) \div (2 ^ (7 - j))

\* The pixels of the n-row sprite at memory[ind..ind+n] whose bit is 1 and
\* which the two loops reach: a row past the bottom edge ends the row loop, a
\* column past the right edge ends the column loop.
SpritePixels(m, ind, n, tlx, tly) ==
    LET reached == {q \in (0..(n - 1)) \X (0..7) :
                        /\ tly + q[1] <= DISPLAY_H - 1
                        /\ tlx + q[2] <= DISPLAY_W - 1
                        /\ SpriteBit(m[ind + q[1]], q[2]) = 1}
    IN  {<<tly + q[1], tlx + q[2]>> : q \in reached}

\* Dxyn that ORs the sprite onto the display instead of XORing it
op_DRW_or(s, x, y, n) ==
    LET tlx == s.registers[x] % DISPLAY_W
        tly == s.registers[y] % DISPLAY_H
        ind == s.index
    IN  IF ind + n > MEM_SIZE THEN Panic(s)
        ELSE LET px == SpritePixels(s.memory, ind, n, tlx, tly)
                 collision == px \cap s.display # {}
             IN  Updated([s EXCEPT
                    !.registers[15] = IF collision THEN 1 ELSE 0,
                    !.display = s.display \cup px])

\* Dxyn that wraps the part of a sprite past the right or bottom edge round
\* to the opposite edge instead of cutting it off
op_DRW_wrap(s, x, y, n) ==
    LET tlx == s.registers[x] % DISPLAY_W
        tly == s.registers[y] % DISPLAY_H
        ind == s.index
    IN  IF ind + n > MEM_SIZE THEN Panic(s)
        ELSE LET lit == {q \in (0..(n - 1)) \X (0..7) :
                            SpriteBit(s.memory[ind + q[1]], q[2]) = 1}
                 px == {<<(tly + q[1]) % DISPLAY_H, (tlx + q[2]) % DISPLAY_W>> :
                            q \in lit}
                 collision == px \cap s.display # {}
             IN  Updated([s EXCEPT
                    !.registers[15] = IF collision THEN 1 ELSE 0,
                    !.display = (s.display \ px) \cup (px \ s.display)])

\* Dxyn that draws the sprite and returns no display update
op_DRW_silent(s, x, y, n) ==
    LET tlx == s.registers[x] % DISPLAY_W
        tly == s.registers[y] % DISPLAY_H
        ind == s.index
    IN  IF ind + n > MEM_SIZE THEN Panic(s)
        ELSE LET px == SpritePixels(s.memory, ind, n, tlx, tly)
                 collision == px \cap s.display # {}
             IN  Ok([s EXCEPT
                    !.registers[15] = IF collision THEN 1 ELSE 0,
                    !.display = (s.display \ px) \cup (px \ s.display)])

\* Dxyn DRW Vx, Vy, nibble.  The slice memory[ind..ind+n] panics when it
\* leaves the array.  Each pixel is visited at most once, so the loop's
\* pixel-by-pixel XOR is the symmetric difference with the sprite's pixels.
op_DRW(s, x, y, n) ==
    LET tlx == s.registers[x] % DISPLAY_W
        tly == s.registers[y] % DISPLAY_H
        ind == s.index
    IN  IF ind + n > MEM_SIZE THEN Panic(s)
        ELSE LET px == SpritePixels(s.memory, ind, n, tlx, tly)
                 collision == px \cap s.display # {}
             IN  Updated([s EXCEPT
                    !.registers[15] = IF collision THEN 1 ELSE 0,
                    !.display = (s.display \ px) \cup (px \ s.display)])

\* Ex9E SKP Vx: keys[vx as usize] panics past the 16-entry snapshot
op_SKP(s, x, keys) ==
    LET vx == s.registers[x] IN
    IF vx > NUM_KEYS - 1 THEN Panic(s)
    ELSE IF keys[vx] THEN Ok(Skip(s)) ELSE Ok(s)

\* ExA1 SKNP Vx
op_SKNP(s, x, keys) ==
    LET vx == s.registers[x] IN
    IF vx > NUM_KEYS - 1 THEN Panic(s)
    ELSE IF ~keys[vx] THEN Ok(Skip(s)) ELSE Ok(s)

\* Fx07 LD Vx, DT
op_LD_Vx_DT(s, x) == Ok([s EXCEPT !.registers[x] = s.delay_timer])

\* The first pressed key of the snapshot, in index order
FirstKey(keys) == CHOOSE k \in 0..(NUM_KEYS - 1) :
                        keys[k] /\ \A l \in 0..(k - 1) : ~keys[l]

\* Fx0A LD Vx, K: with no key pressed program_counter -= 2 (u16)
op_LD_Vx_K(s, x, keys, oc) ==
    IF \A k \in 0..(NUM_KEYS - 1) : ~keys[k]
    THEN IF s.program_counter < 2
         THEN IF oc THEN Panic(s)
              ELSE Ok([s EXCEPT !.program_counter = @ + 65536 - 2])
         ELSE Ok([s EXCEPT !.program_counter = @ - 2])
    ELSE Ok([s EXCEPT !.registers[x] = FirstKey(keys)])

\* Fx15 LD DT, Vx
op_LD_DT_Vx(s, x) == Ok([s EXCEPT !.delay_timer = s.registers[x]])

\* Fx18 LD ST, Vx
op_LD_ST_Vx(s, x) == Ok([s EXCEPT !.sound_timer = s.registers[x]])

\* Fx1E ADD I, Vx: u16 overflowing_add, VF = carry || index > 0x0FFF
op_ADD_I(s, x) ==
    LET sum == s.index + s.registers[x]
        r == sum % 65536
        carry == sum > 65535
    IN  Ok([s EXCEPT !.index = r,
                     !.registers[15] = IF carry \/ r > 4095 THEN 1 ELSE 0])

\* Fx29 LD F, Vx
op_LD_F(s, x) == Ok([s EXCEPT !.index = FONT_INDEX + 5 * s.registers[x]])

\* Fx33 LD B, Vx
op_LD_B(s, x) ==
    LET vx == s.registers[x]
        ind == s.index
    IN  IF ind + 2 > MEM_SIZE - 1 THEN Panic(s)
        ELSE Ok([s EXCEPT !.memory[ind] = (vx \div 100) % 10,
                          !.memory[ind + 1] = (vx \div 10) % 10,
                          !.memory[ind + 2] = vx % 10])

\* Fx55 that stops one register short: V0..V(x-1)
op_LD_mem_Vx_exclusive(s, x) ==
    LET ind == s.index IN
    IF ind + x > MEM_SIZE - 1 THEN Panic(s)
    ELSE Ok([s EXCEPT !.memory =
                [a \in 0..(MEM_SIZE - 1) |->
                    IF a >= ind /\ a < ind + x THEN s.registers[a - ind]
                    ELSE s.memory[a]]])

\* Fx55 LD [I], Vx
op_LD_mem_Vx(s, x) ==
    LET ind == s.index IN
    IF ind + x > MEM_SIZE - 1 THEN Panic(s)
    ELSE Ok([s EXCEPT !.memory =
                [a \in 0..(MEM_SIZE - 1) |->
                    IF a >= ind /\ a <= ind + x THEN s.registers[a - ind]
                    ELSE s.memory[a]]])

\* Fx65 LD Vx, [I]
op_LD_Vx_mem(s, x) ==
    LET ind == s.index IN
    IF ind + x > MEM_SIZE - 1 THEN Panic(s)
    ELSE Ok([s EXCEPT !.registers =
                [r \in 0..(NUM_REGS - 1) |->
                    IF r <= x THEN s.memory[ind + r] ELSE s.registers[r]]])

\* A default arm that treats an unknown instruction as fatal
op_default_fatal(s) == Panic(s)

\* The default arm: a notice on standard output, no change of the machine
op_default(s) == Ok(s)

\* VMState::execute: the match over (n0, n1, n2, n3), arms in source order.
\* i is the instruction's two bytes, keys the host's snapshot, rnd the byte
\* the random generator would return, oc whether overflow panics.
execute(s, i, keys, rnd, oc) ==
    LET n == extract_nibbles(i)
        n0 == n[1]
        n1 == n[2]
        n2 == n[3]
        n3 == n[4]
        nnn == extract_12_bits(n1, n2, n3)
        kk == i[2]
    IN  IF n = <<0, 0, 0, 0>> THEN Ok(s)
        ELSE IF n = <<0, 0, 14, 0>> THEN op_CLS(s)
        ELSE IF n = <<0, 0, 14, 14>> THEN op_RET(s, oc)
        ELSE IF n0 = 1 THEN op_JP(s, nnn)
        ELSE IF n0 = 2 THEN op_CALL(s, nnn, oc)
        ELSE IF n0 = 3 THEN op_SE_byte(s, n1, kk)
        ELSE IF n0 = 4 THEN op_SNE_byte(s, n1, kk)
        ELSE IF n0 = 5 /\ n3 = 0 THEN op_SE_reg(s, n1, n2)
        ELSE IF n0 = 6 THEN op_LD_byte(s, n1, kk)
        ELSE IF n0 = 7 THEN op_ADD_byte(s, n1, kk)
        ELSE IF n0 = 8 /\ n3 = 0 THEN op_LD_reg(s, n1, n2)
        ELSE IF n0 = 8 /\ n3 = 1 THEN op_OR(s, n1, n2)
        ELSE IF n0 = 8 /\ n3 = 2 THEN op_AND(s, n1, n2)
        ELSE IF n0 = 8 /\ n3 = 3 THEN op_XOR(s, n1, n2)
        ELSE IF n0 = 8 /\ n3 = 4 THEN op_ADD_reg(s, n1, n2)
        ELSE IF n0 = 8 /\ n3 = 5 THEN op_SUB(s, n1, n2)
        ELSE IF n0 = 8 /\ n3 = 6 THEN op_SHR(s, n1)
        ELSE IF n0 = 8 /\ n3 = 7 THEN op_SUBN(s, n1, n2)
        ELSE IF n0 = 8 /\ n3 = 14 THEN op_SHL(s, n1)
        ELSE IF n0 = 9 /\ n3 = 0 THEN op_SNE_reg(s, n1, n2)
        ELSE IF n0 = 10 THEN op_LD_I(s, nnn)
        ELSE IF n0 = 11 THEN op_JP_V0(s, nnn)
        ELSE IF n0 = 12 THEN op_RND(s, n1, kk, rnd)
        ELSE IF n0 = 13 THEN op_DRW(s, n1, n2, n3)
        ELSE IF n0 = 14 /\ n2 = 9 /\ n3 = 14 THEN op_SKP(s, n1, keys)
        ELSE IF n0 = 14 /\ n2 = 10 /\ n3 = 1 THEN op_SKNP(s, n1, keys)
        ELSE IF n0 = 15 /\ n2 = 0 /\ n3 = 7 THEN op_LD_Vx_DT(s, n1)
        ELSE IF n0 = 15 /\ n2 = 0 /\ n3 = 10 THEN op_LD_Vx_K(s, n1, keys, oc)
        ELSE IF n0 = 15 /\ n2 = 1 /\ n3 = 5 THEN op_LD_DT_Vx(s, n1)
        ELSE IF n0 = 15 /\ n2 = 1 /\ n3 = 8 THEN op_LD_ST_Vx(s, n1)
        ELSE IF n0 = 15 /\ n2 = 1 /\ n3 = 14 THEN op_ADD_I(s, n1)
        ELSE IF n0 = 15 /\ n2 = 2 /\ n3 = 9 THEN op_LD_F(s, n1)
        ELSE IF n0 = 15 /\ n2 = 3 /\ n3 = 3 THEN op_LD_B(s, n1)
        ELSE IF n0 = 15 /\ n2 = 5 /\ n3 = 5 THEN op_LD_mem_Vx(s, n1)
        ELSE IF n0 = 15 /\ n2 = 6 /\ n3 = 5 THEN op_LD_Vx_mem(s, n1)
        ELSE op_default(s)

----------------------------------------------------------------------------
(* Step driver *)

\* The machine the executor works on, read from the variables
VM ==
    [memory |-> memory, registers |-> registers,
     program_counter |-> program_counter, stack_pointer |-> stack_pointer,
     stack |-> stack, index |-> index, display |-> display,
     delay_timer |-> delay_timer, sound_timer |-> sound_timer]

\* Duration::saturating_sub
saturating_sub(a, b) == IF a > b THEN a - b ELSE 0

\* A timer policy that decrements both timers on every tick without testing
\* them for zero, so that a timer at 0 wraps to 255
TimerPolicy_wrapping(dec, spd, dt, st) ==
    LET d == saturating_sub(dec, spd) IN
    IF d = 0
    THEN [fired |-> TRUE, decrement_timer |-> TIME_60HZ,
          delay_timer |-> (dt + 255) % 256,
          sound_timer |-> (st + 255) % 256]
    ELSE [fired |-> FALSE, decrement_timer |-> d,
          delay_timer |-> dt, sound_timer |-> st]

\* The timer policy at the head of step: [fired, decrement_timer,
\* delay_timer, sound_timer] after it
TimerPolicy(dec, spd, dt, st) ==
    LET d == saturating_sub(dec, spd) IN
    IF d = 0
    THEN [fired |-> TRUE, decrement_timer |-> TIME_60HZ,
          delay_timer |-> IF dt > 0 THEN dt - 1 ELSE dt,
          sound_timer |-> IF st > 0 THEN st - 1 ELSE st]
    ELSE [fired |-> FALSE, decrement_timer |-> d,
          delay_timer |-> dt, sound_timer |-> st]

\* A step that leaves the program counter where it was before executing
Advance_none(pc) == pc % MEM_SIZE

\* self.program_counter += 2; self.program_counter %= 4096
Advance(pc) == (pc + 2) % MEM_SIZE

\* Whether execute consults the key snapshot for this instruction
ReadsKeys(i) ==
    LET n == extract_nibbles(i) IN
    \/ n[1] = 14 /\ n[3] = 9 /\ n[4] = 14
    \/ n[1] = 14 /\ n[3] = 10 /\ n[4] = 1
    \/ n[1] = 15 /\ n[3] = 0 /\ n[4] = 10

\* Instruction shapes, as the match arms of execute tell them apart
IsCLS(i) == i = <<0, 224>>

IsRET(i) == i = <<0, 238>>

IsCALL(i) == i[1] \div 16 = 2

IsDRW(i) == i[1] \div 16 = 13

IsALU(i, op) == i[1] \div 16 = 8 /\ i[2] % 16 = op

IsLD_Vx_K(i) == i[1] \div 16 = 15 /\ i[2] = 10

IsLD_F(i) == i[1] \div 16 = 15 /\ i[2] = 41

IsLD_B(i) == i[1] \div 16 = 15 /\ i[2] = 51

IsLD_mem_Vx(i) == i[1] \div 16 = 15 /\ i[2] = 85

IsLD_Vx_mem(i) == i[1] \div 16 = 15 /\ i[2] = 101

IsLD_Vx_DT(i) == i[1] \div 16 = 15 /\ i[2] = 7

IsLD_DT_Vx(i) == i[1] \div 16 = 15 /\ i[2] = 21

IsLD_ST_Vx(i) == i[1] \div 16 = 15 /\ i[2] = 24

IsADD_byte(i) == i[1] \div 16 = 7

IsSKP(i) == i[1] \div 16 = 14 /\ i[2] = 158

IsSKNP(i) == i[1] \div 16 = 14 /\ i[2] = 161

\* The instruction matches one of the patterns of execute's match
Matched(i) ==
    LET n == extract_nibbles(i) IN
    \/ n = <<0, 0, 0, 0>> \/ n = <<0, 0, 14, 0>> \/ n = <<0, 0, 14, 14>>
    \/ n[1] \in {1, 2, 3, 4, 6, 7, 10, 11, 12, 13}
    \/ n[1] \in {5, 9} /\ n[4] = 0
    \/ n[1] = 8 /\ n[4] \in {0, 1, 2, 3, 4, 5, 6, 7, 14}
    \/ n[1] = 14 /\ <<n[3], n[4]>> \in {<<9, 14>>, <<10, 1>>}
    \/ n[1] = 15 /\ <<n[3], n[4]>> \in {<<0, 7>>, <<0, 10>>, <<1, 5>>, <<1, 8>>,
            <<1, 14>>, <<2, 9>>, <<3, 3>>, <<5, 5>>, <<6, 5>>}

\* The sound timer runs out when ticks reaches this value: an executed Fx18
\* sets it to Vx ticks after the ticks counted so far
SoundDueAfter(due, i, vx, tk) == IF IsLD_ST_Vx(i) THEN tk + vx ELSE due

\* The register operands x (n1) and y (n2) of an instruction
OpX(i) == i[1] % 16

OpY(i) == i[2] \div 16

\* The font bytes' address range 0x050..0x09F
FontRange == FONT_INDEX..(FONT_INDEX + Len(FONT) - 1)

\* Whether the instruction, executed with this index, stores into the font
WritesFont(i, ind) ==
    \/ IsLD_B(i) /\ (ind..(ind + 2)) \cap FontRange # {}
    \/ IsLD_mem_Vx(i) /\ (ind..(ind + OpX(i))) \cap FontRange # {}

\* The open calls after an instruction that did not panic
CallsAfter(cs, i, pc) ==
    IF IsCALL(i) THEN Append(cs, Advance(pc))
    ELSE IF IsRET(i) /\ Len(cs) > 0 THEN SubSeq(cs, 1, Len(cs) - 1)
    ELSE cs

NoKeys == [k \in 0..(NUM_KEYS - 1) |-> FALSE]

Pressed(S) == [k \in 0..(NUM_KEYS - 1) |-> k \in S]

\* History record of one step: the machine as the step found it, the
\* instruction it fetched, whether its timer policy fired and the key
\* snapshot if the instruction consulted it.
NoStep ==
    [valid |-> FALSE, fetched |-> FALSE, program_counter |-> 0, instr |-> <<0, 0>>,
     registers |-> [r \in 0..(NUM_REGS - 1) |-> 0], stack_pointer |-> 0,
     index |-> 0, display |-> {}, fired |-> FALSE, keys |-> NoKeys,
     calls |-> <<>>, delay_timer |-> 0, sound_timer |-> 0,
     decrement_timer |-> TIME_60HZ]

ThisStep(fetched, instr, fired, keys) ==
    [valid |-> TRUE, fetched |-> fetched, program_counter |-> program_counter,
     instr |-> instr, registers |-> registers, stack_pointer |-> stack_pointer,
     index |-> index, display |-> display, fired |-> fired,
     keys |-> IF fetched /\ ReadsKeys(instr) THEN keys ELSE NoKeys,
     calls |-> calls, delay_timer |-> delay_timer, sound_timer |-> sound_timer,
     decrement_timer |-> decrement_timer]

\* VMState::step(keys): timer policy, fetch, advance, execute.  A panic
\* anywhere in it ends the process and leaves nothing to observe.
step(keys, rnd) ==
    /\ status = "running"
    /\ steps < MaxSteps
    /\ LET t == TimerPolicy(decrement_timer, speed, delay_timer, sound_timer)
           bad == FetchPanics(program_counter)
           instr == IF bad THEN <<0, 0>> ELSE fetch(memory, program_counter)
           s1 == [VM EXCEPT !.delay_timer = t.delay_timer,
                            !.sound_timer = t.sound_timer,
                            !.program_counter = Advance(program_counter)]
           r == IF bad THEN Panic(VM) ELSE execute(s1, instr, keys, rnd, overflow_checks)
       IN  /\ steps' = steps + 1
           /\ last' = ThisStep(~bad, instr, t.fired, keys)
           /\ last2' = last
           /\ IF r.panic
              THEN /\ status' = "panicked"
                   /\ ret' = None
                   /\ UNCHANGED <<memory, registers, program_counter, stack_pointer,
                                  stack, index, display, decrement_timer, delay_timer,
                                  sound_timer, ticks, calls, font_written,
                                  sound_due>>
              ELSE /\ status' = "running"
                   /\ ret' = r.ret
                   /\ memory' = r.vm.memory
                   /\ registers' = r.vm.registers
                   /\ program_counter' = r.vm.program_counter
                   /\ stack_pointer' = r.vm.stack_pointer
                   /\ stack' = r.vm.stack
                   /\ index' = r.vm.index
                   /\ display' = r.vm.display
                   /\ delay_timer' = r.vm.delay_timer
                   /\ sound_timer' = r.vm.sound_timer
                   /\ decrement_timer' = t.decrement_timer
                   /\ ticks' = IF t.fired THEN ticks + 1 ELSE ticks
                   /\ calls' = CallsAfter(calls, instr, program_counter)
                   /\ font_written' = (font_written \/ WritesFont(instr, index))
                   /\ sound_due' = SoundDueAfter(sound_due, instr, registers[OpX(instr)],
                                                 IF t.fired THEN ticks + 1 ELSE ticks)
    /\ UNCHANGED <<speed, overflow_checks>>

\* VMState::buzzer_active
buzzer_active == sound_timer > 0

----------------------------------------------------------------------------
(* Programs and host inputs explored *)

\* n zero bytes
Pad(n) == [k \in 1..n |-> 0]

\* The program rom, zero-filled up to address a, followed by the bytes at
At(rom, a, at) == rom \o Pad(a - ROM_BASE - Len(rom)) \o at

\* The two bytes of the instruction word with first nibble n0 and address nnn
Word(n0, nnn) == <<n0 * 16 + nnn \div 256, nnn % 256>>

\* V0 = 5; DT = V0; ST = V0; then a jump to itself
RomTimer == <<\H60, \H05, \HF0, \H15, \HF0, \H18, \H12, \H06>>

\* Vx = d; I = glyph of Vx; V1 = 0 (x # 1); draw it at (V1, V1); loop
RomFont(x, d) ==
    <<\H60 + x, d, \HF0 + x, \H29, \H61, 0, \HD1, \H15, \H12, \H08>>

\* I = a; V0 = 123; V1 = 45; then the store st (Fx33 or Fx55); loop
RomStore(a, st) ==
    Word(10, a) \o <<\H60, 123, \H61, 45>> \o st \o <<\H12, \H08>>

\* V0 = v0; JP V0, nnn
RomJumpV0(v0, nnn) == <<\H60, v0>> \o Word(11, nnn)

\* A jump to address a, where the instruction at is placed; 00EE at 0x300
RomHigh(a, at) ==
    At(At(Word(1, a), \H300, <<\H00, \HEE>>), a, at)

\* Subroutine k of depth: at 0x300 + 4(k-1), a call of subroutine k+1 and a
\* return; the innermost is a return alone.
RECURSIVE Subs(_, _)
Subs(k, depth) ==
    IF k = depth THEN <<\H00, \HEE>>
    ELSE Word(2, \H300 + 4 * k) \o <<\H00, \HEE>> \o Subs(k + 1, depth)

\* depth nested calls, then the matching returns, then a jump to itself
RomNest(depth) == At(Word(2, \H300) \o <<\H12, \H02>>, \H300, Subs(1, depth))

\* A call of itself; a return on the empty stack
RomCallSelf == <<\H22, \H00>>

RomRetEmpty == <<\H00, \HEE, \H22, \H00>>

\* Fx0A at 0x200, then a jump to itself
RomWait(x) == <<\HF0 + x, \H0A, \H12, \H02>>

\* I = sprite; Vx = vx; Vy = vy; CLS; three draws; CLS; a draw; CLS; loop;
\* the sprite's bytes follow at 0x220.
RomDraw(x, y, vx, vy, n, sprite) ==
    At(<<\HA2, \H20, \H60 + x, vx, \H60 + y, vy, \H00, \HE0,
         \HD0 + x, y * 16 + n, \HD0 + x, y * 16 + n, \HD0 + x, y * 16 + n,
         \H00, \HE0, \HD0 + x, y * 16 + n, \H00, \HE0, \H12, \H12>>,
       \H220, sprite)

\* With Vx = a and Vy = b set before each: 8xy4, 8xy5, 8xy7, 8xy6, 8xyE
RomALU(x, y, a, b) ==
    LET set == <<\H60 + x, a, \H60 + y, b>>
        op(n) == <<\H80 + x, y * 16 + n>>
    IN  set \o op(4) \o set \o op(5) \o set \o op(7)
            \o set \o op(6) \o set \o op(14)

\* Vx = a; ADD Vx, kk; loop
RomAddByte(x, a, kk) == <<\H60 + x, a, \H70 + x, kk, \H12, \H04>>

\* I = glyph 0; draw it at (V0, V0) = (0, 0); V0 = 7; the word w; loop
RomUnknown(w) == <<\HA0, \H50, \HD0, \H05, \H60, \H07>> \o w \o <<\H12, \H08>>

\* Vx = v; Ex9E or ExA1 (lo = 0x9E, 0xA1); V1 = 1; V2 = 2; loop
RomKey(x, v, lo) ==
    <<\H60 + x, v, \HE0 + x, lo, \H61, \H01, \H62, \H02, \H12, \H08>>

\* V0 = 5, then 3xkk, 4xkk, 5xy0 and 9xy0, each once taken and once not
RomSkips ==
    <<\H60, \H05, \H30, \H05, \H00, \H00, \H40, \H05, \H41, \H05, \H00, \H00,
      \H50, \H10, \H50, \H00, \H00, \H00, \H90, \H10, \H00, \H00, \H90, \H00,
      \H12, \H18>>

\* V0 = 5; DT = V0; V1 = DT; ST = V0; V2 = DT; a call of a return; loop
RomDelay ==
    <<\H60, \H05, \HF0, \H15, \HF1, \H07, \HF0, \H18, \HF2, \H07,
      \H22, \H0E, \H12, \H0C, \H00, \HEE>>

\* V0 = v; ST = V0; loop
RomBuzz(v) == <<\H60, v, \HF0, \H18, \H12, \H04>>

\* I = a; V0, V1, V2 = 123, 45, 9; Fx55; V0, V1, V2 = 0; Fx65; loop
RomBlock(a, x) ==
    Word(10, a) \o <<\H60, 123, \H61, 45, \H62, 9, \HF0 + x, \H55,
                     \H60, 0, \H61, 0, \H62, 0, \HF0 + x, \H65, \H12, \H12>>

RegPairs == {<<0, 1>>, <<1, 1>>, <<1, 15>>, <<15, 1>>, <<15, 15>>}

ByteVals == {0, 1, 127, 128, 255}

Sprites == {<<\HFF, \H81, \H3C, \H00, \H01>> \o Pad(10), Pad(15)}

Coords == {<<0, 0>>, <<5, 3>>, <<62, 30>>, <<70, 40>>}

ClockFreq == 700

Roms ==
    {RomFont(0, d) : d \in {0, 9, 10, 15}}
    \cup {RomStore(a, st) : a \in {\H50, \H9E, \H300},
                            st \in {<<\HF0, \H33>>, <<\HF1, \H55>>}}
    \cup {RomJumpV0(0, \H204), RomJumpV0(255, \HFFF)}
    \cup {RomHigh(\HFFC, <<\H30, \H00>>), RomHigh(\HFFC, <<\H30, \H01>>),
          RomHigh(\HFFE, <<\HF3, \H0A>>), RomHigh(\HFFE, <<\H23, \H00>>),
          RomHigh(\H400, <<\H23, \H00>>)}
    \cup {RomNest(d) : d \in {1, 3, 16}}
    \cup {RomCallSelf, RomRetEmpty}
    \cup {RomWait(x) : x \in {0, 3}}
    \cup {RomDraw(p[1], p[2], c[1], c[2], n, s) :
            p \in {<<0, 1>>, <<1, 15>>}, c \in Coords, n \in {0, 5, 15}, s \in Sprites}
    \cup {RomALU(p[1], p[2], a, b) : p \in RegPairs, a \in ByteVals, b \in ByteVals}
    \cup {RomAddByte(x, p[1], p[2]) :
            x \in {0, 15},
            p \in {<<0, 0>>, <<1, 255>>, <<255, 255>>, <<127, 1>>, <<200, 100>>}}
    \cup {RomUnknown(w) : w \in {<<\H50, \H11>>, <<\H81, \H28>>, <<\H91, \H21>>,
                                  <<\HE1, \H00>>, <<\HF1, \H00>>, <<\H01, \H23>>}}
    \cup {RomHigh(\HFFE, <<\H51, \H21>>)}
    \cup {RomKey(0, v, lo) : v \in {3, 16, 255}, lo \in {\H9E, \HA1}}
    \cup {RomSkips}
    \cup {RomBlock(a, x) : a \in {\H300, \HFFD, \HFFE}, x \in {0, 2}}

\* The clock frequencies and programs the engine is constructed with
Configs ==
    {<<RomTimer, f>> : f \in {60, 100, ClockFreq}}
    \cup {<<RomDelay, f>> : f \in {60, 100}}
    \cup {<<rom, ClockFreq>> : rom \in Roms}

KeySnaps == {NoKeys, Pressed({3}), Pressed({1, 5})}

RandBytes == {0, 165, 255}

\* VMState::new(freq) followed by load(rom)
InitWith(configs) ==
    \E c \in configs :
        /\ memory = load(NewMemory, c[1])
        /\ registers = [r \in 0..(NUM_REGS - 1) |-> 0]
        /\ program_counter = ROM_BASE
        /\ stack_pointer = 0
        /\ stack = [k \in 0..(STACK_SIZE - 1) |-> 0]
        /\ index = 0
        /\ display = BlankDisplay
        /\ speed = SpeedOf(c[2])
        /\ decrement_timer = TIME_60HZ
        /\ delay_timer = 0
        /\ sound_timer = 0
        /\ overflow_checks \in BOOLEAN
        /\ status = "running"
        /\ ret = None
        /\ steps = 0
        /\ ticks = 0
        /\ calls = <<>>
        /\ font_written = FALSE
        /\ sound_due = 0
        /\ last = NoStep
        /\ last2 = NoStep

Init == InitWith(Configs)

Next == \E keys \in KeySnaps, rnd \in RandBytes : step(keys, rnd)

Spec == Init /\ [][Next]_vars

\* Programs that set the sound timer once, at clock rates at which it runs
\* out within the steps explored, and at a clock rate (freq is a u32) whose
\* period 1/freq s is less than half a nanosecond
BuzzerConfigs ==
    {<<RomBuzz(v), f>> : v \in {0, 1, 2, 3, 5}, f \in {60, 100}}
    \cup {<<RomBuzz(1), ClockFreq>>}
    \cup {<<RomBuzz(1), 2100000000>>}

InitBuzzer == InitWith(BuzzerConfigs)

\* chip8_base::run calls step again and again for as long as the process
\* lives: a step that can be taken is eventually taken.
SpecBuzzer == InitBuzzer /\ [][Next]_vars /\ WF_vars(Next)

----------------------------------------------------------------------------
(* Properties *)

\* The last step fetched and executed an instruction and did not panic
Executed == status = "running" /\ last.valid /\ last.fetched

\* No return has been executed on an empty stack, no call past the array
StackDefined == stack_pointer = Len(calls)

\* C1: at every clock frequency the timers tick at 60 Hz: after any number
\* of steps the timer policy has fired once for every whole 1/60 s of
\* accumulated step time, the k-th firing at the first step where
\* steps x period >= k x 16,666,667 ns.
C1_TimersTickAt60Hz ==
    status = "running" => ticks = (steps * speed) \div TIME_60HZ

\* C2: as long as no Fx33/Fx55 write targets them, the 80 bytes at 0x050 are
\* the font table, and after Fx29 with Vx a digit, memory[index..index+5]
\* holds the five bytes of that digit's glyph.
C2_FontTableInMemory ==
    /\ ~font_written =>
            \A k \in 0..(Len(FONT) - 1) : memory[FONT_INDEX + k] = FONT[k + 1]
    /\ (Executed /\ ~font_written /\ IsLD_F(last.instr)
            /\ last.registers[OpX(last.instr)] <= 15) =>
            \A k \in 0..4 :
                memory[index + k] = FONT[5 * last.registers[OpX(last.instr)] + k + 1]

\* C3: without stack over/underflow the program counter is an address of
\* memory after every step: program_counter <= 4095.
C3_ProgramCounterInMemory ==
    (status = "running" /\ StackDefined) => program_counter <= MEM_SIZE - 1

\* C4: the stack holds 16 return addresses: a call made with fewer than 16
\* calls open executes inside the stack array, and a return with 1..16 calls
\* open pops the address of the latest open call.
C4_SixteenNestedCalls ==
    /\ (last.valid /\ last.fetched /\ IsCALL(last.instr)
            /\ last.stack_pointer = Len(last.calls) /\ Len(last.calls) < STACK_SIZE) =>
            /\ status = "running"
            /\ stack_pointer = Len(last.calls) + 1
    /\ (last.valid /\ last.fetched /\ IsRET(last.instr)
            /\ last.stack_pointer = Len(last.calls)
            /\ Len(last.calls) \in 1..STACK_SIZE) =>
            /\ status = "running"
            /\ program_counter = last.calls[Len(last.calls)]
            /\ stack_pointer = Len(last.calls) - 1

\* The address nnn of the instruction holds 00EE
TargetReturns(i) ==
    LET nnn == extract_12_bits(i[1] % 16, i[2] \div 16, i[2] % 16) IN
    nnn + 1 <= MEM_SIZE - 1 /\ IsRET(fetch(memory, nnn))

\* C5: a call at address a whose target holds 00EE executes, and the return
\* that follows leaves program_counter at the instruction after the call and
\* stack_pointer at its value before the call; with up to 16 calls open, every
\* return goes back to the instruction after its call.
C5_CallReturnBalance ==
    /\ (last.valid /\ last.fetched /\ IsCALL(last.instr) /\ TargetReturns(last.instr)
            /\ last.stack_pointer = Len(last.calls) /\ Len(last.calls) < STACK_SIZE) =>
            status = "running"
    /\ (last2.valid /\ last2.fetched /\ IsCALL(last2.instr) /\ TargetReturns(last2.instr)
            /\ last2.stack_pointer = Len(last2.calls) /\ Len(last2.calls) < STACK_SIZE
            /\ last.valid) =>
            /\ Executed /\ IsRET(last.instr)
            /\ program_counter = Advance(last2.program_counter)
            /\ stack_pointer = last2.stack_pointer

\* The key snapshot of the last step had no key pressed
NoKeyPressed == \A k \in 0..(NUM_KEYS - 1) : ~last.keys[k]

\* C6: Fx0A at any address: a step with no key pressed leaves program_counter
\* and Vx as they were; a step with a key pressed stores the lowest pressed
\* key in Vx and leaves program_counter advanced by 2.
C6_WaitForKey ==
    (last.valid /\ last.fetched /\ IsLD_Vx_K(last.instr)) =>
        /\ status = "running"
        /\ NoKeyPressed =>
                /\ program_counter = last.program_counter
                /\ registers = last.registers
        /\ ~NoKeyPressed =>
                /\ program_counter = Advance(last.program_counter)
                /\ registers[OpX(last.instr)] = FirstKey(last.keys)

\* The last two steps executed the same Dxyn with the same Vx, Vy and index
\* (a draw writes no memory, so the sprite bytes are the same too)
DrewTwice ==
    /\ Executed /\ last2.valid /\ last2.fetched
    /\ IsDRW(last.instr) /\ last2.instr = last.instr
    /\ last.registers[OpX(last.instr)] = last2.registers[OpX(last.instr)]
    /\ last.registers[OpY(last.instr)] = last2.registers[OpY(last.instr)]
    /\ last.index = last2.index

\* The lit pixels of the visible part of the sprite the last step drew
LastSprite ==
    SpritePixels(memory, last.index, last.instr[2] % 16,
                 last.registers[OpX(last.instr)] % DISPLAY_W,
                 last.registers[OpY(last.instr)] % DISPLAY_H)

\* C7 as stated: the second of two equal draws restores the framebuffer, sets
\* VF = 1 whenever the first draw left a sprite pixel on, and sets VF = 0 only
\* if the visible part of the sprite has no set bit.
C7_DrawTwiceAsStated ==
    DrewTwice =>
        /\ display = last2.display
        /\ (LastSprite \cap last.display # {}) => registers[15] = 1
        /\ registers[15] = 0 => LastSprite = {}

\* C7 (amended): the second of two equal draws restores the framebuffer to its
\* state before the first, and sets VF = 1 exactly when some set bit of the
\* visible part of the sprite fell on a pixel that was off before the first
\* draw (the first draw left it on), VF = 0 otherwise.
C7_DrawTwiceRestores ==
    DrewTwice =>
        /\ display = last2.display
        /\ registers[15] = (IF LastSprite \ last2.display # {} THEN 1 ELSE 0)

\* Two equal draws of a sprite with set bits over pixels all lit before the
\* first draw: the second draw redraws them and reports VF = 0.
C7_Witness ==
    /\ DrewTwice
    /\ LastSprite # {}
    /\ LastSprite \subseteq last2.display
    /\ display = last2.display
    /\ registers[15] = 0

\* C8: 00E0 turns every pixel off whatever the framebuffer held and returns
\* a display update holding the all-off framebuffer.
C8_ClearScreen ==
    (Executed /\ IsCLS(last.instr)) =>
        /\ display = BlankDisplay
        /\ ret = Some(BlankDisplay)

\* 00E0 executed right after a draw that had left pixels on
C8_Witness ==
    /\ Executed /\ IsCLS(last.instr)
    /\ last2.valid /\ IsDRW(last2.instr)
    /\ last.display # {}
    /\ display = BlankDisplay /\ ret.some

\* What 8xy4, 8xy5 and 8xy7 compute from the operands vx, vy: [r, flag]
ALUResult(op, vx, vy) ==
    IF op = 4 THEN [r |-> (vx + vy) % 256, flag |-> IF vx + vy > 255 THEN 1 ELSE 0]
    ELSE IF op = 5 THEN [r |-> (vx - vy) % 256, flag |-> IF vx < vy THEN 0 ELSE 1]
    ELSE [r |-> (vy - vx) % 256, flag |-> IF vy < vx THEN 0 ELSE 1]

\* C9 as stated: for all x and y, 8xy4/8xy5/8xy7 leave Vx = the result and
\* VF = the flag of the operands before the instruction.
C9_AddSubAsStated ==
    \A op \in {4, 5, 7} :
        (Executed /\ IsALU(last.instr, op)) =>
            LET e == ALUResult(op, last.registers[OpX(last.instr)],
                                   last.registers[OpY(last.instr)])
            IN  /\ registers[OpX(last.instr)] = e.r
                /\ registers[15] = e.flag

\* C9 (amended): for all x and y, 8xy4/8xy5/8xy7 leave VF = the flag of the
\* operands before the instruction, and leave Vx = the result when x is not
\* 0xF (with x = 0xF the flag overwrites the result).
C9_AddSubFlags ==
    \A op \in {4, 5, 7} :
        (Executed /\ IsALU(last.instr, op)) =>
            LET e == ALUResult(op, last.registers[OpX(last.instr)],
                                   last.registers[OpY(last.instr)])
            IN  /\ OpX(last.instr) # 15 => registers[OpX(last.instr)] = e.r
                /\ registers[15] = e.flag

\* 8xy7 with y = 0xF and Vy < Vx: a borrow, a wrapped difference, VF = 0
C9_Witness ==
    /\ Executed /\ IsALU(last.instr, 7)
    /\ OpX(last.instr) # 15 /\ OpY(last.instr) = 15
    /\ last.registers[15] < last.registers[OpX(last.instr)]
    /\ registers[OpX(last.instr)] =
            last.registers[15] - last.registers[OpX(last.instr)] + 256
    /\ registers[15] = 0

\* C10: for x other than 0xF, 8xy6 leaves VF = the old least-significant bit
\* of Vx and Vx = Vx >> 1; 8xyE leaves VF = the old most-significant bit of Vx
\* (0 or 1) and Vx = (Vx << 1) mod 256.
C10_Shifts ==
    /\ (Executed /\ IsALU(last.instr, 6) /\ OpX(last.instr) # 15) =>
            /\ registers[15] = last.registers[OpX(last.instr)] % 2
            /\ registers[OpX(last.instr)] = last.registers[OpX(last.instr)] \div 2
    /\ (Executed /\ IsALU(last.instr, 14) /\ OpX(last.instr) # 15) =>
            /\ registers[15] = last.registers[OpX(last.instr)] \div 128
            /\ registers[OpX(last.instr)] = (last.registers[OpX(last.instr)] * 2) % 256

\* The flag output of 8xy4, 8xy5, 8xy6, 8xy7, 8xyE for the operands vx, vy
ALUFlag(op, vx, vy) ==
    IF op = 4 THEN (IF vx + vy > 255 THEN 1 ELSE 0)
    ELSE IF op = 5 THEN (IF vx < vy THEN 0 ELSE 1)
    ELSE IF op = 6 THEN vx % 2
    ELSE IF op = 7 THEN (IF vy < vx THEN 0 ELSE 1)
    ELSE vx \div 128

\* C11: after 8xy4, 8xy5, 8xy6, 8xy7 or 8xyE with x = 0xF, VF holds the
\* opcode's flag output, computed from the operands before the instruction,
\* not the arithmetic or shift result.
C11_FlagWinsOverResult ==
    \A op \in {4, 5, 6, 7, 14} :
        (Executed /\ IsALU(last.instr, op) /\ OpX(last.instr) = 15) =>
            registers[15] = ALUFlag(op, last.registers[15],
                                        last.registers[OpY(last.instr)])

\* The step just taken fetched the instruction last'.instr and executed it
\* on the machine of the unprimed variables
Executing == last'.valid /\ last'.fetched

\* C12: 7xkk sets Vx to (Vx + kk) mod 256 for every x, Vx and kk, never
\* fails, and changes no other register (no flag), nor memory, index, stack,
\* stack pointer or framebuffer.
C12_AddByteWraps ==
    [][(Executing /\ IsADD_byte(last'.instr)) =>
            /\ status' = "running"
            /\ registers' = [registers EXCEPT ![OpX(last'.instr)] =
                                (registers[OpX(last'.instr)] + last'.instr[2]) % 256]
            /\ memory' = memory /\ index' = index /\ display' = display
            /\ stack' = stack /\ stack_pointer' = stack_pointer]_vars

\* 7xkk whose sum passed 255, with x other than 0xF: Vx wrapped, VF kept
C12_Witness ==
    /\ Executed /\ IsADD_byte(last.instr) /\ OpX(last.instr) # 15
    /\ last.registers[OpX(last.instr)] + last.instr[2] > 255
    /\ registers[OpX(last.instr)] = last.registers[OpX(last.instr)] + last.instr[2] - 256
    /\ registers[15] = last.registers[15]

\* C13: an instruction word that matches no pattern is a no-op: the step does
\* not fail and returns no display update, registers, memory, index, stack,
\* stack pointer and framebuffer are unchanged, the timers change only by the
\* step's timer tick, and program_counter is advanced by 2 modulo 4096.
C13_UnknownIsNoOp ==
    [][(Executing /\ ~Matched(last'.instr)) =>
            /\ status' = "running"
            /\ ret' = None
            /\ registers' = registers /\ memory' = memory /\ index' = index
            /\ stack' = stack /\ stack_pointer' = stack_pointer
            /\ display' = display
            /\ delay_timer' = (IF last'.fired /\ delay_timer > 0
                               THEN delay_timer - 1 ELSE delay_timer)
            /\ sound_timer' = (IF last'.fired /\ sound_timer > 0
                               THEN sound_timer - 1 ELSE sound_timer)
            /\ program_counter' = (program_counter + 2) % MEM_SIZE]_vars

\* An unknown instruction at 0xFFE executed: the program counter wrapped to 0
C13_Witness ==
    /\ Executed /\ ~Matched(last.instr)
    /\ last.program_counter = MEM_SIZE - 2
    /\ program_counter = 0
    /\ ~ret.some

\* C14: whatever the registers hold, the indices the executor uses lie
\* inside the arrays: register operands in 0..15, the key looked up by Ex9E
\* and ExA1 (key[Vx]) in 0..15 so that the lookup succeeds, and every pixel
\* touched inside the 64 x 32 framebuffer.
C14_IndicesInBounds ==
    /\ display \subseteq (0..(DISPLAY_H - 1)) \X (0..(DISPLAY_W - 1))
    /\ (last.valid /\ last.fetched) =>
            /\ OpX(last.instr) \in 0..(NUM_REGS - 1)
            /\ OpY(last.instr) \in 0..(NUM_REGS - 1)
    /\ (last.valid /\ last.fetched /\ (IsSKP(last.instr) \/ IsSKNP(last.instr))) =>
            /\ last.registers[OpX(last.instr)] \in 0..(NUM_KEYS - 1)
            /\ status = "running"

\* C15: in every step that completes, decrement_timer is reduced by the step
\* period, saturating at zero; the timers tick in that step iff the result is
\* zero, and then each of delay_timer and sound_timer goes down by 1 if it is
\* nonzero and stays 0 otherwise, and decrement_timer is reset to 16,666,667
\* ns; in every other step the policy leaves both timers alone.  Only an
\* executed Fx15 (Fx18) puts another value, Vx, into the delay (sound) timer,
\* so a timer never increases otherwise, and 0 < decrement_timer <= 16,666,667
\* ns after every step.
Ticked == decrement_timer - speed <= 0

AfterTick(timer) == IF Ticked /\ timer > 0 THEN timer - 1 ELSE timer

C15_TimerPolicy ==
    [][(last'.valid /\ status' = "running") =>
        /\ last'.fired = Ticked
        /\ decrement_timer' = (IF Ticked THEN 16666667 ELSE decrement_timer - speed)
        /\ decrement_timer' > 0 /\ decrement_timer' <= 16666667
        /\ delay_timer' = (IF IsLD_DT_Vx(last'.instr)
                           THEN registers[OpX(last'.instr)]
                           ELSE AfterTick(delay_timer))
        /\ sound_timer' = (IF IsLD_ST_Vx(last'.instr)
                           THEN registers[OpX(last'.instr)]
                           ELSE AfterTick(sound_timer))
        /\ delay_timer' \in 0..255 /\ sound_timer' \in 0..255
        /\ (delay_timer' > delay_timer => IsLD_DT_Vx(last'.instr))
        /\ (sound_timer' > sound_timer => IsLD_ST_Vx(last'.instr))
        /\ ticks' = (IF Ticked THEN ticks + 1 ELSE ticks)]_vars

\* A tick that takes the delay timer down by one, leaves the sound timer at
\* zero and resets decrement_timer
C15_Witness ==
    /\ last.valid /\ status = "running" /\ last.fired
    /\ last.delay_timer > 0 /\ delay_timer = last.delay_timer - 1
    /\ last.sound_timer = 0 /\ sound_timer = 0
    /\ last.decrement_timer <= speed /\ decrement_timer = TIME_60HZ

\* C16: Dxyn with index + n <= 4096 completes and draws the 8-wide, n-row
\* sprite at memory[index..index+n) with its top-left pixel at column
\* Vx mod 64, row Vy mod 32: a pixel of the 64 x 32 framebuffer that lies
\* under bit 7 - j of row i of the sprite becomes old XOR that bit, the part
\* of the sprite past column 63 or row 31 is dropped, and every other pixel
\* is unchanged; VF = 1 iff a set sprite bit fell on a pixel that was on,
\* else 0; no other register, no memory byte and not index changes, and the
\* step returns the new framebuffer as a display update, also for n = 0.
DrawnBit(row, col, tlx, tly, n) ==
    /\ row >= tly /\ row < tly + n
    /\ col >= tlx /\ col <= tlx + 7
    /\ (memory[index + (row - tly)] \div 2 ^ (7 - (col - tlx))) % 2 = 1

C16_DrawSprite ==
    [][(Executing /\ IsDRW(last'.instr) /\ index + (last'.instr[2] % 16) <= 4096) =>
        LET n == last'.instr[2] % 16
            tlx == registers[OpX(last'.instr)] % 64
            tly == registers[OpY(last'.instr)] % 32
        IN  /\ status' = "running"
            /\ display' \subseteq (0..31) \X (0..63)
            /\ \A row \in 0..31, col \in 0..63 :
                    (<<row, col>> \in display') =
                        ((<<row, col>> \in display) # DrawnBit(row, col, tlx, tly, n))
            /\ registers' = [registers EXCEPT ![15] =
                    IF \E p \in display : DrawnBit(p[1], p[2], tlx, tly, n)
                    THEN 1 ELSE 0]
            /\ memory' = memory
            /\ index' = index
            /\ ret' = Some(display')]_vars

\* A sprite drawn at column 62, row 30 or 31 on a blank screen whose first
\* row has all eight bits set: the two columns that fit are lit, nothing
\* appears at the left edge or the top
C16_Witness ==
    /\ Executed /\ IsDRW(last.instr)
    /\ last.instr[2] % 16 > 0
    /\ last.display = {}
    /\ last.registers[OpX(last.instr)] % DISPLAY_W = 62
    /\ last.registers[OpY(last.instr)] % DISPLAY_H >= 30
    /\ memory[last.index] = 255
    /\ LET r == last.registers[OpY(last.instr)] % DISPLAY_H
       IN  {<<r, 62>>, <<r, 63>>} \subseteq display
    /\ \A p \in display : p[1] >= 30 /\ p[2] >= 62
    /\ ret = Some(display)

\* C17: a step runs the timer policy, fetches the word at the program
\* counter, advances the program counter by 2 modulo 4096 and only then
\* executes.  So the instruction executed is the word at the old program
\* counter; Fx07 on a ticking step reads the delay timer already decremented;
\* the value Fx15 or Fx18 writes is still there, undecremented, when the step
\* ends; 2nnn pushes the address of the call + 2 (mod 4096); a skip lands on
\* that address, or 2 beyond it when taken; and any instruction that is no
\* jump, call, return, skip or key wait leaves the program counter there.
Advanced == (program_counter + 2) % 4096

SkipTaken(i, keys) ==
    LET n1 == i[1] \div 16
        vx == registers[OpX(i)]
        vy == registers[OpY(i)]
    IN  \/ n1 = 3 /\ vx = i[2]
        \/ n1 = 4 /\ vx # i[2]
        \/ n1 = 5 /\ vx = vy
        \/ n1 = 9 /\ vx # vy
        \/ IsSKP(i) /\ keys[vx]
        \/ IsSKNP(i) /\ ~keys[vx]

IsSkip(i) ==
    \/ i[1] \div 16 \in {3, 4}
    \/ i[1] \div 16 \in {5, 9} /\ i[2] % 16 = 0
    \/ IsSKP(i) \/ IsSKNP(i)

ChangesFlow(i) ==
    \/ i[1] \div 16 \in {1, 2, 11}
    \/ IsRET(i) \/ IsSkip(i) \/ IsLD_Vx_K(i)

C17_StepOrder ==
    [][(Executing /\ status' = "running") =>
        LET i == last'.instr
            x == OpX(i)
        IN  /\ i = <<memory[program_counter], memory[program_counter + 1]>>
            /\ IsLD_Vx_DT(i) => registers'[x] = AfterTick(delay_timer)
            /\ IsLD_DT_Vx(i) => delay_timer' = registers[x]
            /\ IsLD_ST_Vx(i) => sound_timer' = registers[x]
            /\ IsCALL(i) =>
                    /\ stack'[stack_pointer'] = Advanced
                    /\ program_counter' = (i[1] % 16) * 256 + i[2]
            /\ IsSkip(i) =>
                    program_counter' % 4096 =
                        (Advanced + (IF SkipTaken(i, last'.keys) THEN 2 ELSE 0)) % 4096
            /\ ~ChangesFlow(i) => program_counter' = Advanced]_vars

\* Fx07 executed in a step whose tick took the delay timer from a nonzero
\* value d to d - 1: Vx is d - 1
C17_Witness ==
    /\ Executed /\ IsLD_Vx_DT(last.instr)
    /\ last.fired /\ last.delay_timer > 1
    /\ delay_timer = last.delay_timer - 1
    /\ registers[OpX(last.instr)] = last.delay_timer - 1

\* C18: the framebuffer never changes unsignalled.  A completed step returns
\* a display update iff the instruction it executed is 00E0 or Dxyn; the
\* update returned is the framebuffer as that step left it; a step that
\* returns none leaves the framebuffer as it found it.  So the frame a host
\* last received (the blank one before any update) is always the engine's
\* framebuffer.
C18_UpdateSignalled ==
    Executed =>
        /\ ret.some = (IsCLS(last.instr) \/ IsDRW(last.instr))
        /\ ret.some => ret.val = display
        /\ ~ret.some => display = last.display

\* A step that returns no update while the framebuffer shows a drawn sprite
C18_Witness ==
    /\ Executed /\ ~ret.some
    /\ display # {} /\ display = last.display
    /\ last2.valid /\ IsDRW(last2.instr)

C20_BlockTransfer ==
    [][(Executing /\ index + OpX(last'.instr) <= 4095) =>
        LET x == OpX(last'.instr) IN
        /\ IsLD_mem_Vx(last'.instr) =>
                /\ status' = "running"
                /\ \A i \in 0..x : memory'[index + i] = registers[i]
                /\ \A a \in 0..4095 :
                        (a < index \/ a > index + x) => memory'[a] = memory[a]
                /\ registers' = registers
                /\ index' = index
        /\ IsLD_Vx_mem(last'.instr) =>
                /\ status' = "running"
                /\ \A i \in 0..x : registers'[i] = memory[index + i]
                /\ \A r \in 0..15 : r > x => registers'[r] = registers[r]
                /\ memory' = memory
                /\ index' = index]_vars

\* F265 has brought 123, 45, 9 back into V0..V2, which the program had set
\* to zero after storing them with F255
C20_Witness ==
    /\ Executed /\ last.instr = <<\HF2, \H65>>
    /\ \A i \in 0..2 : last.registers[i] = 0
    /\ <<registers[0], registers[1], registers[2]>> = <<123, 45, 9>>
    /\ <<memory[index], memory[index + 1], memory[index + 2]>> = <<123, 45, 9>>
    /\ index = last.index

====
